---- MODULE Spec2Model ----
(***************************************************************************)
(* PriorityExpiryCache (src/index.ts): a bounded key/value cache whose     *)
(* set() evicts expired entries first, then the lowest priority, then the  *)
(* least recently used entry of that priority.                             *)
(*                                                                         *)
(* The Map `items` is a function from the stored keys to Item records, the *)
(* two AvlTrees are functions from the keys they hold to their             *)
(* DoublyLinkedList, and a DoublyLinkedList is a sequence of cache keys,   *)
(* head first.  An Item's cached references (itemListSameExp/-Node,        *)
(* itemListSamePrio/-Node) are the position of its key in the list of the  *)
(* tree node that carries its expTime / priority.                          *)
(***************************************************************************)
EXTENDS Integers, Sequences, FiniteSets, TLC

\* ---------------------------------------------------------------- bounds
MaxCapacity == 2

Keys == {"A", "B", "C"}
\* The larger cache: one more key, one value, and the most places that
\* still leave a key to evict for.
FrameKeys == {"A", "B", "C", "D"}
FrameCapacity == Cardinality(FrameKeys) - 1
FrameValues == {"v1"}
Values == {"v1", "v2"}
Priorities == {1, 2}
ExpTimes == {1, 2}
Times == {0, 1, 2}

\* localeCompare order of the keys
KeyOrder == <<"A", "B", "C", "D">>

\* `undefined`
Absent == "undefined"
NoItem == [key |-> "none", value |-> Absent, priority |-> 0, expTime |-> 0]

\* What the history keeps of the item a set() deleted.
Trace(item) == [key |-> item.key, priority |-> item.priority, expTime |-> item.expTime]

\* The history record of a public call.
Call(op, key, value, priority, expTime, ret, keys, deleted) ==
  [op |-> op, key |-> key, value |-> value, priority |-> priority, expTime |-> expTime,
   ret |-> ret, keys |-> keys, deleted |-> Trace(deleted)]

VARIABLES
  maxItems,      \* private maxItems
  mockTime,      \* private mockTime
  items,         \* private items: Map<string, Item>
  numItems,      \* private numItems
  expTree,       \* private expTree: expTime -> itemListSameExp
  priorityTree,  \* private priorityTree: priority -> itemListSamePrio
  touched,       \* history: per priority, its stored keys, least recently touched first
  inserted,      \* history: per expTime, its stored keys, least recently set first
  again,         \* history: the call was a set() with the arguments of the call before it
  last           \* history: the public call that produced this state

vars == <<maxItems, mockTime, items, numItems, expTree, priorityTree, touched, inserted, again, last>>

\* ------------------------------------------------------- library helpers
\* @datastructures-js/linked-list and @datastructures-js/binary-search-tree
\* as index.ts uses them: remove(node) detaches the node and returns it,
\* insertLast(node) appends that node, head() is the first node, min() the
\* node of the lowest key, findKey(k) the node of key k or null.
Min(S) == CHOOSE x \in S : \A y \in S : x <= y

Max(S) == CHOOSE x \in S : \A y \in S : x >= y

Range(s) == {s[i] : i \in DOMAIN s}

\* DoublyLinkedList.remove that hands the other nodes back in reverse order
ListRemoveReverses(list, key) ==
  LET rest == SelectSeq(list, LAMBDA x : x # key)
  IN  [i \in 1..Len(rest) |-> rest[Len(rest) + 1 - i]]

\* DoublyLinkedList.remove(node), the node being the one that holds `key`
ListRemove(list, key) == SelectSeq(list, LAMBDA x : x # key)

\* DoublyLinkedList.insertFirst
ListInsertFirst(list, key) == <<key>> \o list

\* DoublyLinkedList.insertLast
ListInsertLast(list, key) == Append(list, key)

\* AvlTree.min: the key of the tree's lowest node
expTreeMin(tree) == Min(DOMAIN tree)

priorityTreeMax(tree) == Max(DOMAIN tree)

priorityTreeMin(tree) == Min(DOMAIN tree)

\* AvlTree.removeNode
TreeRemove(tree, k) == [x \in (DOMAIN tree) \ {k} |-> tree[x]]

\* Map.has / Map.get / Map.delete / Map.set
MapHas(m, key) == key \in DOMAIN m

MapGet(m, key) == IF MapHas(m, key) THEN m[key] ELSE NoItem

MapDelete(m, key) == [k \in (DOMAIN m) \ {key} |-> m[k]]

MapSet(m, item) == [k \in (DOMAIN m) \cup {item.key} |-> IF k = item.key THEN item ELSE m[k]]

\* ------------------------------------------------------ private methods
\* The cache as a record, so that the private methods compose.
Cache == [items |-> items, numItems |-> numItems,
          expTree |-> expTree, priorityTree |-> priorityTree]

\* updateExpTreeAndLinkedListForExpTime that inserts at the tail
updateExpTreeInsertsLast(tree, item) ==
  IF item.expTime \notin DOMAIN tree
  THEN tree @@ (item.expTime :> ListInsertLast(<<>>, item.key))
  ELSE [tree EXCEPT ![item.expTime] = ListInsertLast(@, item.key)]

updateExpTreeAndLinkedListForExpTime(tree, item) ==
  IF item.expTime \notin DOMAIN tree
  THEN tree @@ (item.expTime :> ListInsertFirst(<<>>, item.key))
  ELSE [tree EXCEPT ![item.expTime] = ListInsertFirst(@, item.key)]

\* updatePriorityTreeAndLinkedListForPriority that inserts at the head
updatePriorityTreeInsertsFirst(tree, item) ==
  IF item.priority \notin DOMAIN tree
  THEN tree @@ (item.priority :> ListInsertFirst(<<>>, item.key))
  ELSE [tree EXCEPT ![item.priority] = ListInsertFirst(@, item.key)]

updatePriorityTreeAndLinkedListForPriority(tree, item) ==
  IF item.priority \notin DOMAIN tree
  THEN tree @@ (item.priority :> ListInsertLast(<<>>, item.key))
  ELSE [tree EXCEPT ![item.priority] = ListInsertLast(@, item.key)]

\* updateExpTreeAndLinkedListForItemRemoval that removes the tree node
\* without asking whether the list is empty
updateExpTreeRemovesNode(tree, item) ==
  IF item.expTime \in DOMAIN tree /\ item.key \in Range(tree[item.expTime])
  THEN TreeRemove(tree, item.expTime)
  ELSE tree

updateExpTreeAndLinkedListForItemRemoval(tree, item) ==
  IF item.expTime \in DOMAIN tree /\ item.key \in Range(tree[item.expTime])
  THEN LET list == ListRemove(tree[item.expTime], item.key)
       IN  IF list = <<>>
           THEN TreeRemove(tree, item.expTime)
           ELSE [tree EXCEPT ![item.expTime] = list]
  ELSE tree

\* updatePriorityTreeAndLinkedListForItemRemoval that leaves the node in its list
updatePriorityTreeKeepsNode(tree, item) == tree

updatePriorityTreeAndLinkedListForItemRemoval(tree, item) ==
  IF item.priority \in DOMAIN tree /\ item.key \in Range(tree[item.priority])
  THEN LET list == ListRemove(tree[item.priority], item.key)
       IN  IF list = <<>>
           THEN TreeRemove(tree, item.priority)
           ELSE [tree EXCEPT ![item.priority] = list]
  ELSE tree

\* addItem that forgets numItems++
addItemKeepsCount(c, key, value, priority, expireTime) ==
  LET item == [key |-> key, value |-> value, priority |-> priority, expTime |-> expireTime]
  IN  [items        |-> MapSet(c.items, item),
       numItems     |-> c.numItems,
       expTree      |-> updateExpTreeAndLinkedListForExpTime(c.expTree, item),
       priorityTree |-> updatePriorityTreeAndLinkedListForPriority(c.priorityTree, item)]

addItem(c, key, value, priority, expireTime) ==
  LET item == [key |-> key, value |-> value, priority |-> priority, expTime |-> expireTime]
  IN  [items        |-> MapSet(c.items, item),
       numItems     |-> c.numItems + 1,
       expTree      |-> updateExpTreeAndLinkedListForExpTime(c.expTree, item),
       priorityTree |-> updatePriorityTreeAndLinkedListForPriority(c.priorityTree, item)]

\* deleteItem that forgets numItems--
deleteItemKeepsCount(c, item) ==
  [items        |-> MapDelete(c.items, item.key),
   numItems     |-> c.numItems,
   expTree      |-> updateExpTreeAndLinkedListForItemRemoval(c.expTree, item),
   priorityTree |-> updatePriorityTreeAndLinkedListForItemRemoval(c.priorityTree, item)]

deleteItem(c, item) ==
  [items        |-> MapDelete(c.items, item.key),
   numItems     |-> c.numItems - 1,
   expTree      |-> updateExpTreeAndLinkedListForItemRemoval(c.expTree, item),
   priorityTree |-> updatePriorityTreeAndLinkedListForItemRemoval(c.priorityTree, item)]

\* set(): "Is the cache full?"
isFullOffByOne(n, max) == n > max

isFull(n, max) == n >= max

\* set(): "Have we reached that expTime value (according to mockTime)?"
hasExpiredStrict(expTime, now) == expTime < now

hasExpired(expTime, now) == expTime <= now

\* set(): the head of the list of the priorityTree's lowest node
lowestPriorityHeadOfMax(tree) == Head(tree[priorityTreeMax(tree)])

lowestPriorityHead(tree) == Head(tree[priorityTreeMin(tree)])

\* set(): the item evicted from a full cache, NoItem when the trees are empty
itemToEvict(c, now) ==
  IF DOMAIN c.expTree = {}
  THEN NoItem
  ELSE IF hasExpired(expTreeMin(c.expTree), now)
       THEN MapGet(c.items, Head(c.expTree[expTreeMin(c.expTree)]))
       ELSE IF DOMAIN c.priorityTree = {}
            THEN NoItem
            ELSE MapGet(c.items, lowestPriorityHead(c.priorityTree))

\* itemToDelete that looks at the capacity before it looks for the key
itemToDeleteCapacityFirst(c, key, max, now) ==
  IF isFull(c.numItems, max)
  THEN itemToEvict(c, now)
  ELSE IF MapHas(c.items, key) THEN MapGet(c.items, key) ELSE NoItem

\* itemToDelete that evicts an expired item whether or not the cache is full
itemToDeleteEager(c, key, max, now) ==
  IF MapHas(c.items, key)
  THEN MapGet(c.items, key)
  ELSE IF isFull(c.numItems, max)
          \/ (DOMAIN c.expTree # {} /\ hasExpired(expTreeMin(c.expTree), now))
       THEN itemToEvict(c, now)
       ELSE NoItem

\* set(): the item deleted before the new one is added: the cached item of
\* the same key, or else the item evicted from a full cache
itemToDelete(c, key, max, now) ==
  IF MapHas(c.items, key)
  THEN MapGet(c.items, key)
  ELSE IF isFull(c.numItems, max) THEN itemToEvict(c, now) ELSE NoItem

\* get(): "If item exists and not yet expired"
isHitInclusive(m, key, now) == MapHas(m, key) /\ MapGet(m, key).expTime >= now

isHit(m, key, now) == MapHas(m, key) /\ MapGet(m, key).expTime > now

\* get(): remove the item's node from its list and insert it last
moveToTailNot(list, key) == list

moveToHead(list, key) == ListInsertFirst(ListRemove(list, key), key)

moveToTail(list, key) == ListInsertLast(ListRemove(list, key), key)

\* get(): the value returned
getResult(m, key, now) == IF isHit(m, key, now) THEN MapGet(m, key).value ELSE Absent

\* getKeys(): Map.forEach visits the items in insertion order, which the
\* Map of the model does not keep: any order of the stored keys
MapOrders(m) ==
  {f \in [1..Cardinality(DOMAIN m) -> DOMAIN m] :
     \A i, j \in 1..Cardinality(DOMAIN m) : f[i] = f[j] => i = j}

\* getKeys(): "if (item.expTime > this.mockTime)"
isListedInclusive(item, now) == item.expTime >= now

isListed(item, now) == item.expTime > now

\* getKeys(): the keys pushed, in the order of the visit
listedKeys(visit, m, now) == SelectSeq(visit, LAMBDA k : isListed(m[k], now))

\* String.localeCompare on the keys: negative, zero or positive
KeyRank(key) == CHOOSE i \in DOMAIN KeyOrder : KeyOrder[i] = key

localeCompare(s, s2) == KeyRank(s) - KeyRank(s2)

\* Array.sort with the localeCompare comparator
insertSorted(sorted, key) ==
  LET n == Cardinality({i \in DOMAIN sorted : localeCompare(sorted[i], key) <= 0})
  IN  SubSeq(sorted, 1, n) \o <<key>> \o SubSeq(sorted, n + 1, Len(sorted))

RECURSIVE sortKeysFrom(_, _)
sortKeysFrom(sorted, keys) ==
  IF keys = <<>>
  THEN sorted
  ELSE sortKeysFrom(insertSorted(sorted, Head(keys)), Tail(keys))

sortKeysNot(keys) == keys

sortKeys(keys) == sortKeysFrom(<<>>, keys)

\* getKeys(): the unexpired keys, sorted by localeCompare
sortedKeys(visit, m, now) == sortKeys(listedKeys(visit, m, now))

\* ------------------------------------------------------------- history
\* A touch of `key`: an insertion or update by set, or a get that returned
\* its value.  The key becomes the most recently touched of its priority.
\* `inserted` keeps the same record per expTime, of set() alone.
Forget(t, key) == [p \in DOMAIN t |-> SelectSeq(t[p], LAMBDA k : k # key)]

Touch(t, key, priority) ==
  [p \in DOMAIN t |-> IF p = priority
                      THEN Append(SelectSeq(t[p], LAMBDA k : k # key), key)
                      ELSE SelectSeq(t[p], LAMBDA k : k # key)]

\* The call being made is a set() with the arguments of the call before it.
SameCall(key, value, priority, expireTime) ==
  /\ last.op = "set"
  /\ last.key = key
  /\ last.value = value
  /\ last.priority = priority
  /\ last.expTime = expireTime

\* ----------------------------------------------------------- public API
Init ==
  /\ maxItems \in 0..MaxCapacity
  /\ mockTime = 0
  /\ items = <<>>
  /\ numItems = 0
  /\ expTree = <<>>
  /\ priorityTree = <<>>
  /\ touched = [p \in Priorities |-> <<>>]
  /\ inserted = [t \in ExpTimes |-> <<>>]
  /\ again = FALSE
  /\ last = Call("new", "none", Absent, 0, 0, Absent, <<>>, NoItem)

\* set() that adds the new item before it evicts
setEvictsAfterAdd(key, value, priority, expireTime) ==
  \E c1 \in {IF MapHas(items, key)
             THEN addItem(deleteItem(Cache, MapGet(items, key)), key, value, priority, expireTime)
             ELSE addItem(Cache, key, value, priority, expireTime)} :
    \E gone \in {IF ~MapHas(items, key) /\ isFull(numItems, maxItems)
                 THEN itemToEvict(c1, mockTime) ELSE NoItem} :
      \E c \in {IF gone = NoItem THEN c1 ELSE deleteItem(c1, gone)} :
        /\ items' = c.items
        /\ numItems' = c.numItems
        /\ expTree' = c.expTree
        /\ priorityTree' = c.priorityTree
        /\ touched' = Forget(Touch(touched, key, priority), gone.key)
        /\ inserted' = Forget(Touch(inserted, key, expireTime), gone.key)
        /\ again' = SameCall(key, value, priority, expireTime)
        /\ last' = Call("set", key, value, priority, expireTime, Absent, <<>>, gone)
        /\ UNCHANGED <<maxItems, mockTime>>

set(key, value, priority, expireTime) ==
  \E gone \in {itemToDelete(Cache, key, maxItems, mockTime)} :
    \E c \in {addItem(IF gone = NoItem THEN Cache ELSE deleteItem(Cache, gone),
                      key, value, priority, expireTime)} :
      /\ items' = c.items
      /\ numItems' = c.numItems
      /\ expTree' = c.expTree
      /\ priorityTree' = c.priorityTree
      /\ touched' = Touch(Forget(touched, gone.key), key, priority)
      /\ inserted' = Touch(Forget(inserted, gone.key), key, expireTime)
      /\ again' = SameCall(key, value, priority, expireTime)
      /\ last' = Call("set", key, value, priority, expireTime, Absent, <<>>, gone)
      /\ UNCHANGED <<maxItems, mockTime>>

\* get() that deletes the expired item it finds
getDeletesExpired(key) ==
  \E c \in {IF MapHas(items, key) /\ ~isHit(items, key, mockTime)
            THEN deleteItem(Cache, MapGet(items, key)) ELSE Cache} :
    /\ items' = c.items
    /\ numItems' = c.numItems
    /\ expTree' = c.expTree
    /\ priorityTree' =
         IF isHit(items, key, mockTime)
         THEN [priorityTree EXCEPT ![items[key].priority] = moveToTail(@, key)]
         ELSE c.priorityTree
    /\ touched' = IF isHit(items, key, mockTime)
                  THEN Touch(touched, key, items[key].priority)
                  ELSE touched
    /\ again' = FALSE
    /\ last' = Call("get", key, Absent, 0, 0, getResult(items, key, mockTime), <<>>, NoItem)
    /\ UNCHANGED <<maxItems, mockTime, inserted>>

\* get() that moves the node of an expired item too
getMovesExpired(key) ==
  /\ priorityTree' =
       IF MapHas(items, key)
       THEN [priorityTree EXCEPT ![items[key].priority] = moveToTail(@, key)]
       ELSE priorityTree
  /\ touched' = IF isHit(items, key, mockTime)
                THEN Touch(touched, key, items[key].priority)
                ELSE touched
  /\ again' = FALSE
  /\ last' = Call("get", key, Absent, 0, 0, getResult(items, key, mockTime), <<>>, NoItem)
  /\ UNCHANGED <<maxItems, mockTime, items, numItems, expTree, inserted>>

get(key) ==
  /\ priorityTree' =
       IF isHit(items, key, mockTime)
       THEN [priorityTree EXCEPT ![items[key].priority] = moveToTail(@, key)]
       ELSE priorityTree
  /\ touched' = IF isHit(items, key, mockTime)
                THEN Touch(touched, key, items[key].priority)
                ELSE touched
  /\ again' = FALSE
  /\ last' = Call("get", key, Absent, 0, 0, getResult(items, key, mockTime), <<>>, NoItem)
  /\ UNCHANGED <<maxItems, mockTime, items, numItems, expTree, inserted>>

\* setMockTime() that sweeps: deletes an item the new time has expired
setMockTimeSweeps(time) ==
  \E gone \in {IF DOMAIN expTree # {} /\ hasExpired(expTreeMin(expTree), time)
                THEN MapGet(items, Head(expTree[expTreeMin(expTree)]))
                ELSE NoItem} :
    \E c \in {IF gone = NoItem THEN Cache ELSE deleteItem(Cache, gone)} :
      /\ mockTime' = time
      /\ items' = c.items
      /\ numItems' = c.numItems
      /\ expTree' = c.expTree
      /\ priorityTree' = c.priorityTree
      /\ touched' = Forget(touched, gone.key)
      /\ inserted' = Forget(inserted, gone.key)
      /\ again' = FALSE
      /\ last' = Call("setMockTime", "none", Absent, 0, 0, Absent, <<>>, NoItem)
      /\ UNCHANGED maxItems

setMockTime(time) ==
  /\ mockTime' = time
  /\ again' = FALSE
  /\ last' = Call("setMockTime", "none", Absent, 0, 0, Absent, <<>>, NoItem)
  /\ UNCHANGED <<maxItems, items, numItems, expTree, priorityTree, touched, inserted>>

getKeys ==
  /\ again' = FALSE
  /\ \E visit \in MapOrders(items) :
       last' = Call("getKeys", "none", Absent, 0, 0, Absent,
                    sortedKeys(visit, items, mockTime), NoItem)
  /\ UNCHANGED <<maxItems, mockTime, items, numItems, expTree, priorityTree, touched, inserted>>

DoSet == \E key \in Keys, value \in Values, priority \in Priorities, expireTime \in ExpTimes :
           set(key, value, priority, expireTime)

DoGet == \E key \in Keys : get(key)

DoSetMockTime == \E time \in Times : setMockTime(time)

DoGetKeys == getKeys

Next == DoSet \/ DoGet \/ DoSetMockTime \/ DoGetKeys

Spec == Init /\ [][Next]_vars

\* The same cache with FrameCapacity places, called with FrameKeys.
InitFrame ==
  /\ maxItems = FrameCapacity
  /\ mockTime = 0
  /\ items = <<>>
  /\ numItems = 0
  /\ expTree = <<>>
  /\ priorityTree = <<>>
  /\ touched = [p \in Priorities |-> <<>>]
  /\ inserted = [t \in ExpTimes |-> <<>>]
  /\ again = FALSE
  /\ last = Call("new", "none", Absent, 0, 0, Absent, <<>>, NoItem)

DoSetFrame == \E key \in FrameKeys, value \in FrameValues, priority \in Priorities, expireTime \in ExpTimes :
                set(key, value, priority, expireTime)

DoGetFrame == \E key \in FrameKeys : get(key)

NextFrame == DoSetFrame \/ DoGetFrame \/ DoSetMockTime \/ DoGetKeys

SpecFrame == InitFrame /\ [][NextFrame]_vars

\* ------------------------------------------------------------ properties
Stored == DOMAIN items

\* The call that led to the next state is a set() of a key that was not cached.
SetOfAbsentKey == last'.op = "set" /\ last'.key \notin DOMAIN items

\* The call that led to the next state is a set() of a key that was cached.
SetOfPresentKey == last'.op = "set" /\ last'.key \in DOMAIN items

\* The keys the step removed from the Map.
Removed == (DOMAIN items) \ (DOMAIN items')

\* The keys other than the one being set that the step removed.
Evicted == Removed \ {last'.key}

SomeExpired == \E k \in DOMAIN items : items[k].expTime <= mockTime

\* This state follows a set() that evicted an item to make room.
AfterEviction ==
  /\ last.op = "set"
  /\ last.deleted.key \notin {NoItem.key, last.key}

\* This state follows a set() that replaced the item cached under its key.
AfterUpdate ==
  /\ last.op = "set"
  /\ last.deleted.key = last.key

RECURSIVE TreeSize(_)
TreeSize(tree) ==
  IF DOMAIN tree = {}
  THEN 0
  ELSE LET k == CHOOSE x \in DOMAIN tree : TRUE
       IN  Len(tree[k]) + TreeSize(TreeRemove(tree, k))

\* C1: with maxItems >= 1 the number of stored items, expired ones included,
\* never exceeds maxItems (numItems changes in set() only).
CapacityInvariant == maxItems >= 1 => numItems <= maxItems

\* A full cache that has just evicted, and still holds an expired item.
CapacityWitness ==
  /\ AfterEviction
  /\ maxItems >= 1
  /\ numItems = maxItems
  /\ \E k \in Stored : items[k].expTime <= mockTime

\* C2: when set() of an absent key finds the cache full and some stored item
\* has expTime <= mockTime, it evicts an item, and that item has
\* expTime <= mockTime.
ExpirationDominance ==
  [][(SetOfAbsentKey /\ numItems >= maxItems /\ SomeExpired)
       => /\ Evicted # {}
          /\ \A k \in Evicted : items[k].expTime <= mockTime]_vars

\* An expired item was evicted although an unexpired item of strictly lower
\* priority was cached.
ExpirationDominanceWitness ==
  /\ AfterEviction
  /\ last.deleted.expTime <= mockTime
  /\ \E k \in Stored \ {last.key} :
       items[k].expTime > mockTime /\ items[k].priority < last.deleted.priority

\* C3: when set() of an absent key finds the cache full and no stored item is
\* expired, the item it evicts has the minimum priority of all stored items.
PriorityDominance ==
  [][(SetOfAbsentKey /\ numItems >= maxItems /\ ~SomeExpired /\ DOMAIN items # {})
       => /\ Evicted # {}
          /\ \A k \in Evicted : \A j \in DOMAIN items :
               items[k].priority <= items[j].priority]_vars

\* An unexpired item was evicted while an item of higher priority stayed.
PriorityDominanceWitness ==
  /\ AfterEviction
  /\ last.deleted.expTime > mockTime
  /\ \E k \in Stored \ {last.key} : items[k].priority > last.deleted.priority

\* C4: when set() of an absent key finds the cache full and no stored item is
\* expired, the item it evicts is the least recently touched of the items
\* that share the minimum priority.
LruTieBreak ==
  [][(SetOfAbsentKey /\ numItems >= maxItems /\ ~SomeExpired /\ DOMAIN items # {})
       => Evicted = {Head(touched[Min({items[j].priority : j \in DOMAIN items})])}]_vars

\* An unexpired item was evicted while another item of its priority stayed.
LruTieBreakWitness ==
  /\ AfterEviction
  /\ last.deleted.expTime > mockTime
  /\ \E k \in Stored \ {last.key} : items[k].priority = last.deleted.priority

\* C5: get(key) returns the value of the most recent set() of the key if the
\* key is stored with expTime > mockTime, and undefined in every other case;
\* the stored value of a key is the one its most recent set() gave.
GetReturnsLiveValue ==
  [][/\ last'.op = "get" =>
          last'.ret = IF last'.key \in DOMAIN items /\ items[last'.key].expTime > mockTime
                      THEN items[last'.key].value
                      ELSE Absent
     /\ \A k \in DOMAIN items' :
          IF last'.op = "set" /\ last'.key = k
          THEN items'[k].value = last'.value
          ELSE k \in DOMAIN items /\ items'[k].value = items[k].value]_vars

\* A get() of a stored key whose expTime is exactly mockTime returned undefined.
GetReturnsLiveValueWitness ==
  /\ last.op = "get"
  /\ last.ret = Absent
  /\ last.key \in Stored
  /\ items[last.key].expTime = mockTime

\* C6: after set(k, v, p, e) with e > mockTime on a cache of maxItems >= 1,
\* get(k) returns v.
SetThenGet ==
  (last.op = "set" /\ last.expTime > mockTime /\ maxItems >= 1)
    => getResult(items, last.key, mockTime) = last.value

\* A set() with e > mockTime that evicted, after which get(k) returns v.
SetThenGetWitness ==
  /\ AfterEviction
  /\ maxItems >= 1
  /\ last.expTime > mockTime
  /\ getResult(items, last.key, mockTime) = last.value

\* C7: get() of a key that is not stored, or stored with expTime <= mockTime,
\* returns undefined and changes nothing of the cache.
LazyExpiration ==
  [][(/\ last'.op = "get"
      /\ (last'.key \notin DOMAIN items \/ items[last'.key].expTime <= mockTime))
       => /\ last'.ret = Absent
          /\ UNCHANGED <<items, numItems, expTree, priorityTree, mockTime, maxItems>>]_vars

\* A get() of an expired item that is not the most recently used of its
\* priority returned undefined.
LazyExpirationWitness ==
  /\ last.op = "get"
  /\ last.ret = Absent
  /\ last.key \in Stored
  /\ items[last.key].expTime <= mockTime
  /\ Len(priorityTree[items[last.key].priority]) >= 2
  /\ Head(priorityTree[items[last.key].priority]) = last.key

\* C8: numItems is the size of the Map, the number of members of all lists of
\* the expTree, and the number of members of all lists of the priorityTree.
Consistency ==
  /\ numItems = Cardinality(DOMAIN items)
  /\ numItems = TreeSize(expTree)
  /\ numItems = TreeSize(priorityTree)

\* After an eviction, two items in two lists of each tree.
ConsistencyWitness ==
  /\ AfterEviction
  /\ numItems = 2
  /\ Cardinality(DOMAIN expTree) = 2
  /\ Cardinality(DOMAIN priorityTree) = 2

\* C9: set(k, v, p, e) of a stored key removes no other item and leaves
\* numItems and the stored keys as they were; k's item then carries v, p and e
\* and is a member, once, of the list for e and of the list for p alone.
ReplaceSemantics ==
  [][SetOfPresentKey =>
       LET k == last'.key IN
       /\ numItems' = numItems
       /\ DOMAIN items' = DOMAIN items
       /\ \A j \in (DOMAIN items) \ {k} : items'[j] = items[j]
       /\ items'[k] = [key |-> k, value |-> last'.value,
                       priority |-> last'.priority, expTime |-> last'.expTime]
       /\ \A t \in DOMAIN expTree' :
            Cardinality({i \in DOMAIN expTree'[t] : expTree'[t][i] = k})
              = IF t = last'.expTime THEN 1 ELSE 0
       /\ \A q \in DOMAIN priorityTree' :
            Cardinality({i \in DOMAIN priorityTree'[q] : priorityTree'[q][i] = k})
              = IF q = last'.priority THEN 1 ELSE 0
       /\ last'.expTime \in DOMAIN expTree'
       /\ last'.priority \in DOMAIN priorityTree']_vars

\* A full cache replaced an expired item by one of another priority and
\* another expTime.
ReplaceSemanticsWitness ==
  /\ AfterUpdate
  /\ maxItems >= 2
  /\ numItems = maxItems
  /\ last.deleted.expTime <= mockTime
  /\ last.deleted.priority # last.priority
  /\ last.deleted.expTime # last.expTime

\* C10: set() of an absent key removes exactly one item when
\* numItems >= maxItems >= 1, and none when numItems < maxItems, numItems then
\* growing by 1; no set() removes more than one other item.
EvictionCount ==
  [][/\ (SetOfAbsentKey /\ numItems >= maxItems /\ maxItems >= 1)
          => Cardinality(Removed) = 1 /\ numItems' = numItems
     /\ (SetOfAbsentKey /\ numItems < maxItems)
          => Removed = {} /\ numItems' = numItems + 1
     /\ last'.op = "set" => Cardinality(Evicted) <= 1]_vars

\* A set() of an absent key removed nothing although an expired item is stored.
EvictionCountWitness ==
  /\ last.op = "set"
  /\ last.deleted = Trace(NoItem)
  /\ numItems <= maxItems
  /\ \E k \in Stored \ {last.key} : items[k].expTime <= mockTime

\* C11: getKeys() returns the stored keys whose expTime > mockTime, each once,
\* in localeCompare order, and changes nothing of the cache.
GetKeysListsLive ==
  [][last'.op = "getKeys" =>
       /\ Range(last'.keys) = {k \in DOMAIN items : items[k].expTime > mockTime}
       /\ \A i, j \in DOMAIN last'.keys :
            i < j => KeyRank(last'.keys[i]) < KeyRank(last'.keys[j])
       /\ UNCHANGED <<items, numItems, expTree, priorityTree, mockTime, maxItems>>]_vars

\* getKeys() listed one key and left out a stored key that has expired.
GetKeysListsLiveWitness ==
  /\ last.op = "getKeys"
  /\ Len(last.keys) = 1
  /\ \E k \in Stored : items[k].expTime <= mockTime

\* C12: a cache of maxItems = 0 never stores an item: construction is
\* rejected or set() adds nothing.
ZeroCapacity == maxItems = 0 => (numItems = 0 /\ DOMAIN items = {})

\* C13: get(), getKeys() and the eviction of set() agree on expTime <= mockTime
\* as "expired": a stored item is reported undefined by get() exactly if it is
\* left out by getKeys(), and a full set() evicts an item with
\* expTime <= mockTime exactly if some stored item has expTime <= mockTime.
ExpiryBoundaryAgreement ==
  [][/\ (last'.op = "get" /\ last'.key \in DOMAIN items)
          => ((last'.ret = Absent) <=> (items[last'.key].expTime <= mockTime))
     /\ last'.op = "getKeys"
          => \A k \in DOMAIN items :
               (k \notin Range(last'.keys)) <=> (items[k].expTime <= mockTime)
     /\ (SetOfAbsentKey /\ numItems >= maxItems /\ DOMAIN items # {})
          => /\ Evicted # {}
             /\ \A k \in Evicted : (items[k].expTime <= mockTime) <=> SomeExpired]_vars

\* An item whose expTime is exactly mockTime was evicted although an unexpired
\* item of lower priority was cached.
ExpiryBoundaryAgreementWitness ==
  /\ AfterEviction
  /\ last.deleted.expTime = mockTime
  /\ \E k \in Stored \ {last.key} :
       items[k].expTime > mockTime /\ items[k].priority < last.deleted.priority

\* `a` comes before `b` in the list.
Before(list, a, b) ==
  \E i, j \in DOMAIN list : i < j /\ list[i] = a /\ list[j] = b

\* C14: get() of a stored key with expTime > mockTime moves the key to the
\* tail of the list of its priority and changes nothing else: the Map,
\* numItems, the expTree, the other lists of the priorityTree, and the members
\* of its own list and the order of the others in it stay as they were.
GetMovesToTail ==
  [][(last'.op = "get" /\ last'.key \in DOMAIN items
        /\ items[last'.key].expTime > mockTime)
       => LET k == last'.key
              p == items[last'.key].priority
          IN  /\ UNCHANGED <<items, numItems, expTree, mockTime, maxItems>>
              /\ DOMAIN priorityTree' = DOMAIN priorityTree
              /\ \A q \in (DOMAIN priorityTree) \ {p} : priorityTree'[q] = priorityTree[q]
              /\ priorityTree'[p]
                   = Append(SelectSeq(priorityTree[p], LAMBDA x : x # k), k)]_vars

\* get() returned the value of a key that was set before another key of the
\* same priority and expTime, and that now comes after it.
GetMovesToTailWitness ==
  /\ last.op = "get"
  /\ last.ret # Absent
  /\ \E j \in Stored \ {last.key} :
       /\ items[j].priority = items[last.key].priority
       /\ items[j].expTime = items[last.key].expTime
       /\ Before(expTree[items[j].expTime], j, last.key)
       /\ Before(priorityTree[items[j].priority], j, last.key)

\* C15: after set() of a key that was stored, the key is at the tail of the
\* list of its new priority, also when priority and expTime did not change.
UpdateIsTouch ==
  AfterUpdate =>
    /\ last.priority \in DOMAIN priorityTree
    /\ priorityTree[last.priority][Len(priorityTree[last.priority])] = last.key

\* A key was set again with the priority and expTime it had, and shares the
\* list of its priority with another key.
UpdateIsTouchWitness ==
  /\ AfterUpdate
  /\ last.deleted.priority = last.priority
  /\ last.deleted.expTime = last.expTime
  /\ Len(priorityTree[last.priority]) >= 2

\* C16: the expTree has a node for t exactly when some stored item has
\* expTime = t, the priorityTree has a node for p exactly when some stored
\* item has priority = p, and no node holds an empty list.
GroupExistence ==
  /\ DOMAIN expTree = {items[k].expTime : k \in Stored}
  /\ DOMAIN priorityTree = {items[k].priority : k \in Stored}
  /\ \A t \in DOMAIN expTree : expTree[t] # <<>>
  /\ \A q \in DOMAIN priorityTree : priorityTree[q] # <<>>

\* An eviction took the last item of its expTime and the last of its
\* priority, while another item shares a list with the one that was set.
GroupExistenceWitness ==
  /\ AfterEviction
  /\ last.deleted.expTime \notin DOMAIN expTree
  /\ last.deleted.priority \notin DOMAIN priorityTree
  /\ numItems = 2
  /\ Cardinality(DOMAIN expTree) = 1

\* The number of places of the list that hold `key`.
Occurrences(list, key) == Cardinality({i \in DOMAIN list : list[i] = key})

\* C17: every stored item is exactly once in the list of its own expTime and
\* in no other list of the expTree, exactly once in the list of its own
\* priority and in no other list of the priorityTree; every member of a list
\* is a stored item, and the Map holds each key once, under that key.
SingleMembership ==
  /\ \A k \in Stored :
       /\ items[k].key = k
       /\ items[k].expTime \in DOMAIN expTree
       /\ items[k].priority \in DOMAIN priorityTree
       /\ \A t \in DOMAIN expTree :
            Occurrences(expTree[t], k) = IF t = items[k].expTime THEN 1 ELSE 0
       /\ \A q \in DOMAIN priorityTree :
            Occurrences(priorityTree[q], k) = IF q = items[k].priority THEN 1 ELSE 0
  /\ \A t \in DOMAIN expTree : Range(expTree[t]) \subseteq Stored
  /\ \A q \in DOMAIN priorityTree : Range(priorityTree[q]) \subseteq Stored

\* An item was set again with another priority and another expTime, leaving
\* a list it shared and joining the lists of another item.
SingleMembershipWitness ==
  /\ AfterUpdate
  /\ last.deleted.priority # last.priority
  /\ last.deleted.expTime # last.expTime
  /\ numItems = 2
  /\ Len(priorityTree[last.priority]) = 2
  /\ Len(expTree[last.expTime]) = 2

\* C18: every list of the priorityTree holds its members from head to tail in
\* the order of their last touch, oldest first, a touch being a set() of the
\* key or a get() that returned its value.
RecencyOrder ==
  \A q \in Priorities :
    IF q \in DOMAIN priorityTree
    THEN priorityTree[q] = touched[q]
    ELSE touched[q] = <<>>

\* A get() that returned undefined for a stored key left it ahead of a key
\* of the same priority that was touched after it.
RecencyOrderWitness ==
  /\ last.op = "get"
  /\ last.ret = Absent
  /\ last.key \in Stored
  /\ \E j \in Stored \ {last.key} :
       /\ items[j].priority = items[last.key].priority
       /\ Before(priorityTree[items[j].priority], last.key, j)

\* C19: when set() of an absent key finds the cache full and the lowest
\* expTime of the stored items is <= mockTime, the item it evicts is the head
\* of the expTree list of that lowest expTime: an item of the lowest expTime
\* and, of the items that share it, the one set most recently.
ExpiredEvictionChoice ==
  [][(SetOfAbsentKey /\ numItems >= maxItems /\ SomeExpired)
       => LET lowest == Min({items[k].expTime : k \in Stored})
          IN  /\ Evicted = {Head(expTree[lowest])}
              /\ \A k \in Evicted :
                   /\ items[k].expTime = lowest
                   /\ k = inserted[lowest][Len(inserted[lowest])]]_vars

\* An expired item was evicted while an item of the same expTime, set before
\* it, stays cached.
ExpiredEvictionChoiceWitness ==
  /\ AfterEviction
  /\ last.deleted.expTime <= mockTime
  /\ \E k \in Stored \ {last.key} : items[k].expTime = last.deleted.expTime

\* The list of the tree's node `t`, empty when the tree has no such node.
ListAt(tree, t) == IF t \in DOMAIN tree THEN tree[t] ELSE <<>>

\* C20: a set() that evicts removes the evicted item, and nothing else, from
\* the Map and from both trees: every other stored item keeps its value,
\* priority and expTime, and every list holds, apart from the new key, the
\* members it had without the evicted one, in the order they had.
EvictionFrame ==
  [][(SetOfAbsentKey /\ Evicted # {})
       => /\ Cardinality(Evicted) = 1
          /\ DOMAIN items' = ((DOMAIN items) \ Evicted) \cup {last'.key}
          /\ \A k \in (DOMAIN items) \ Evicted : items'[k] = items[k]
          /\ \A t \in (DOMAIN expTree) \cup (DOMAIN expTree') :
               SelectSeq(ListAt(expTree', t), LAMBDA x : x # last'.key)
                 = SelectSeq(ListAt(expTree, t), LAMBDA x : x \notin Evicted)
          /\ \A q \in (DOMAIN priorityTree) \cup (DOMAIN priorityTree') :
               SelectSeq(ListAt(priorityTree', q), LAMBDA x : x # last'.key)
                 = SelectSeq(ListAt(priorityTree, q), LAMBDA x : x \notin Evicted)]_vars

\* An eviction left two items of the evicted item's priority in their list,
\* the one set later ahead of the other.
EvictionFrameWitness ==
  /\ AfterEviction
  /\ \E j, k \in Stored \ {last.key} :
       /\ items[j].priority = last.deleted.priority
       /\ items[k].priority = last.deleted.priority
       /\ items[j].expTime = items[k].expTime
       /\ Before(expTree[items[j].expTime], j, k)
       /\ Before(priorityTree[items[j].priority], j, k)

\* C21: setMockTime() changes mockTime alone, and no get(), getKeys() or
\* setMockTime() removes an item: the Map, numItems and the expTree stay as
\* they were and every list of the priorityTree keeps its members, the
\* expired ones included.
NoSweeper ==
  [][/\ last'.op = "setMockTime"
          => UNCHANGED <<items, numItems, expTree, priorityTree, maxItems>>
     /\ last'.op \in {"get", "getKeys", "setMockTime"}
          => /\ UNCHANGED <<items, numItems, expTree, maxItems>>
             /\ DOMAIN priorityTree' = DOMAIN priorityTree
             /\ \A q \in DOMAIN priorityTree :
                  /\ Range(priorityTree'[q]) = Range(priorityTree[q])
                  /\ Len(priorityTree'[q]) = Len(priorityTree[q])]_vars

\* setMockTime() left a full cache in which every item is expired.
NoSweeperWitness ==
  /\ last.op = "setMockTime"
  /\ maxItems >= 2
  /\ numItems = maxItems
  /\ \A k \in Stored : items[k].expTime <= mockTime
  /\ TreeSize(expTree) = numItems
  /\ TreeSize(priorityTree) = numItems

\* C22: with maxItems >= 1, the key of a set() is stored when the call
\* returns, with the expTime and priority of the call, also when the cache was
\* full and the new item is expired or of the lowest priority; the item the
\* call evicted was stored before the call, under another key.
NeverOwnVictim ==
  [][(last'.op = "set" /\ maxItems >= 1)
       => /\ last'.key \in DOMAIN items'
          /\ items'[last'.key].expTime = last'.expTime
          /\ items'[last'.key].priority = last'.priority
          /\ Removed \subseteq (DOMAIN items) \ {last'.key}
          /\ SetOfAbsentKey => last'.deleted.key # last'.key
          /\ last'.deleted.key \in (DOMAIN items) \cup {NoItem.key}]_vars

\* A full cache evicted an unexpired item of a higher priority for a key
\* that was set expired and with the lowest priority, and holds that key.
NeverOwnVictimWitness ==
  /\ AfterEviction
  /\ maxItems >= 1
  /\ numItems = maxItems
  /\ last.key \in Stored
  /\ last.expTime <= mockTime
  /\ last.deleted.expTime > mockTime
  /\ last.deleted.priority > last.priority
  /\ \A j \in Stored \ {last.key} :
       items[j].priority > last.priority /\ items[j].expTime > mockTime

\* C23: no public call leaves numItems lower than it found it, so with
\* maxItems >= 1 a cache that holds maxItems items holds maxItems items after
\* every later call.
CountNeverDecreases ==
  [][/\ numItems' >= numItems
     /\ (maxItems >= 1 /\ numItems = maxItems) => numItems' = maxItems]_vars

\* A full cache is still full after a set() that deleted an unexpired item
\* to store it again.
CountNeverDecreasesWitness ==
  /\ AfterUpdate
  /\ maxItems >= 1
  /\ numItems = maxItems
  /\ last.deleted.expTime > mockTime

\* C24: with maxItems >= 1, a set() with the arguments of the set() just
\* before it leaves the Map, numItems and every list of both trees, members
\* and order, as the first call left them, and evicts nothing.
SetIdempotent ==
  [][(/\ maxItems >= 1
      /\ last.op = "set" /\ last'.op = "set"
      /\ last'.key = last.key /\ last'.value = last.value
      /\ last'.priority = last.priority /\ last'.expTime = last.expTime)
       => /\ UNCHANGED <<items, numItems, expTree, priorityTree, mockTime, maxItems>>
          /\ Removed = {}
          /\ last'.deleted.key = last'.key]_vars

\* set() was called twice in a row with the same arguments, for a key that
\* shares the list of its expTime and the list of its priority.
SetIdempotentWitness ==
  /\ again
  /\ AfterUpdate
  /\ maxItems >= 1
  /\ Len(expTree[last.expTime]) >= 2
  /\ Len(priorityTree[last.priority]) >= 2

====
